---- MODULE Spec2Model ----
(***************************************************************************)
(* Model of the CSV-to-JSON service: CSVParser (parseCSV, parseCSVLine,    *)
(* validateMandatoryFields, createNestedObject, setNestedProperty,         *)
(* parseValue) of src/src/services/csvParser.js.                           *)
(*                                                                         *)
(* A JavaScript string is modelled as the sequence of its characters, each *)
(* character a one-character TLA+ string, so that scanning, trimming,      *)
(* splitting and number parsing are computed character by character as the *)
(* runtime does.                                                           *)
(***************************************************************************)
EXTENDS Integers, Sequences, FiniteSets, TLC

(***************************************************************************)
(* Bounds of the model.                                                    *)
(***************************************************************************)
\* most lines (separated by newlines) in the text given to parseCSV
MaxLines == 3

\* longest line drawn from the scanner alphabet for a parseCSVLine call
MaxLineLen == 6

\* longest string drawn from the value alphabet for a parseValue call
MaxValueLen == 4

\* most columns in a createNestedObject call
MaxCols == 2

\* the number of records of a batch given to processCSVData
MaxBatch == 2

VARIABLES
  pc,               \* position of the running call
  csvContent,       \* parseCSV: its argument
  lines,            \* parseCSV: const lines (line 12)
  headers,          \* parseCSV / createNestedObject: headers
  jsonData,         \* parseCSV: const jsonData (line 24)
  i,                \* parseCSV: the row loop's index (line 27), 0-based as in the code
  error,            \* the error the call threw, NoError when none
  warnings,         \* parseCSV: the row numbers printed by console.warn (line 31)
  objectPrototype,  \* the properties added to Object.prototype (process-wide)
  line,             \* parseCSVLine: its argument
  values,           \* createNestedObject: its argument values
  value,            \* parseValue: its argument
  result,           \* the value the call returned
  users,            \* database: the rows of the table users, in id order
  autoIncrement,    \* database: the id the next inserted row gets
  requests          \* the requests being served: the locals of each one's
                    \* processCSVData and bulkInsertUsers calls

parserVars == <<pc, csvContent, lines, headers, jsonData, i, error, warnings,
                objectPrototype, line, values, value, result>>

serviceVars == <<users, autoIncrement, requests>>

vars == <<parserVars, serviceVars>>

(***************************************************************************)
(* Characters and the string built-ins the parser calls.                   *)
(***************************************************************************)
\* the characters String.prototype.trim removes
WhiteSpace == {" ", "\t", "\r", "\n"}

QUOTE == "\""

RECURSIVE trimStart(_)
trimStart(s) ==
  IF s # <<>> /\ Head(s) \in WhiteSpace THEN trimStart(Tail(s)) ELSE s

RECURSIVE trimEnd(_)
trimEnd(s) ==
  IF s # <<>> /\ s[Len(s)] \in WhiteSpace
    THEN trimEnd(SubSeq(s, 1, Len(s) - 1))
    ELSE s

\* String.prototype.trim
trim(s) == trimEnd(trimStart(s))

\* String.prototype.split(sep) for a one-character separator: always at least
\* one piece, the empty string included.  splitFrom cuts s at its first
\* separator and splits the rest.
RECURSIVE splitFrom(_, _)
splitFrom(s, sep) ==
  IF \A k \in 1..Len(s) : s[k] # sep THEN <<s>>
  ELSE LET first == CHOOSE k \in 1..Len(s) :
                      s[k] = sep /\ \A j \in 1..(k - 1) : s[j] # sep
       IN  <<SubSeq(s, 1, first - 1)>> \o splitFrom(SubSeq(s, first + 1, Len(s)), sep)

split(s, sep) == splitFrom(s, sep)

\* Array.prototype.join for an array of strings
RECURSIVE join(_, _)
join(arr, sep) ==
  IF arr = <<>> THEN <<>>
  ELSE IF Len(arr) = 1 THEN arr[1]
  ELSE arr[1] \o sep \o join(Tail(arr), sep)

startsWith(s, c) == s # <<>> /\ s[1] = c

endsWith(s, c) == s # <<>> /\ s[Len(s)] = c

\* Array.prototype.includes
includes(arr, x) == \E k \in 1..Len(arr) : arr[k] = x

Range(seq) == {seq[k] : k \in 1..Len(seq)}

\* all sequences over S of length at most n
RECURSIVE SeqsUpTo(_, _)
SeqsUpTo(S, n) ==
  IF n = 0 THEN {<<>>}
  ELSE LET shorter == SeqsUpTo(S, n - 1)
       IN  shorter \cup {Append(s, c) : s \in {t \in shorter : Len(t) = n - 1}, c \in S}

(***************************************************************************)
(* parseCSVLine (lines 51-82).  The scanner's state is the loop's          *)
(* variables: current, inQuotes, values, and skip, which is set when       *)
(* line 64's i++ makes the loop pass over the next character.  k is the    *)
(* 1-based position of line[i].                                            *)
(***************************************************************************)
scanStart == [current |-> <<>>, inQuotes |-> FALSE, values |-> <<>>, skip |-> FALSE]

\* the loop body without line 61's escape: every double quote toggles inQuotes
scanStepNoEscape(ln, k, st) ==
  IF ln[k] = QUOTE THEN [st EXCEPT !.inQuotes = ~st.inQuotes]
  ELSE IF ln[k] = "," /\ ~st.inQuotes
    THEN [st EXCEPT !.values = Append(st.values, trim(st.current)), !.current = <<>>]
  ELSE [st EXCEPT !.current = Append(st.current, ln[k])]

\* lines 57-75: the body of the loop at the character ln[k]
scanStep(ln, k, st) ==
  IF ln[k] = QUOTE
    THEN IF st.inQuotes /\ k + 1 <= Len(ln) /\ ln[k + 1] = QUOTE
           THEN [st EXCEPT !.current = Append(st.current, QUOTE), !.skip = TRUE]
           ELSE [st EXCEPT !.inQuotes = ~st.inQuotes]
  ELSE IF ln[k] = "," /\ ~st.inQuotes
    THEN [st EXCEPT !.values = Append(st.values, trim(st.current)), !.current = <<>>]
  ELSE [st EXCEPT !.current = Append(st.current, ln[k])]

\* line 56: the iterations for the characters from..to, in order, from the
\* state st; after line 64's i++ the character at from has no iteration.
\* The range is halved, the first half scanned before the second, so that
\* the evaluation of a long line is not nested one level per character.
RECURSIVE scanLine(_, _, _, _)
scanLine(ln, from, to, st) ==
  IF st.skip THEN scanLine(ln, from + 1, to, [st EXCEPT !.skip = FALSE])
  ELSE IF from > to THEN st
  ELSE IF from = to THEN scanStep(ln, from, st)
  ELSE scanLine(ln, (from + to) \div 2 + 1, to,
                scanLine(ln, from, (from + to) \div 2, st))

\* lines 52-54 and 79-81: start, scan, push the last field
parseCSVLine(ln) ==
  LET st == scanLine(ln, 1, Len(ln), scanStart)
  IN  Append(st.values, trim(st.current))

(***************************************************************************)
(* JavaScript numbers.  A finite number is the decimal m * 10^e, kept      *)
(* normalised (m has no trailing zero, zero is m = 0, e = 0) so that two   *)
(* numbers are equal exactly when their records are; the decimal stands    *)
(* for the double nearest to it.  A number is integral when e >= 0.        *)
(***************************************************************************)
NaN == [cls |-> "nan", m |-> 0, e |-> 0]

Infinity(sgn) == [cls |-> "inf", m |-> sgn, e |-> 0]

Zero == [cls |-> "fin", m |-> 0, e |-> 0]

RECURSIVE decimalDigitCount(_)
decimalDigitCount(n) == IF n < 10 THEN 1 ELSE 1 + decimalDigitCount(n \div 10)

Abs(n) == IF n < 0 THEN -n ELSE n

RECURSIVE Pow10(_)
Pow10(n) == IF n = 0 THEN 1 ELSE 10 * Pow10(n - 1)

\* the first four significant digits of a normalised mantissa, zero padded
leadingFour(mag) ==
  LET d == decimalDigitCount(mag)
  IN  IF d <= 4 THEN mag * Pow10(4 - d) ELSE mag \div Pow10(d - 4)

\* the double for m * 10^e: beyond the largest double (1.797...e308) it is
\* Infinity, below the smallest (4.9e-324) it is 0
RECURSIVE Finite(_, _)
Finite(m, e) ==
  IF m = 0 THEN Zero
  ELSE IF m % 10 = 0 THEN Finite(m \div 10, e + 1)
  ELSE LET order == e + decimalDigitCount(Abs(m)) - 1
       IN  IF order > 308 \/ (order = 308 /\ leadingFour(Abs(m)) > 1797)
             THEN Infinity(IF m < 0 THEN -1 ELSE 1)
           ELSE IF order < -324 THEN Zero
           ELSE [cls |-> "fin", m |-> m, e |-> e]

isNaN(n) == n.cls = "nan"

HexLower == <<"0", "1", "2", "3", "4", "5", "6", "7", "8", "9",
              "a", "b", "c", "d", "e", "f">>

HexUpper == <<"0", "1", "2", "3", "4", "5", "6", "7", "8", "9",
              "A", "B", "C", "D", "E", "F">>

\* the value of a character as a digit, 99 when it is no digit of any radix
digitValue(c) ==
  IF \E k \in 1..16 : HexLower[k] = c
    THEN (CHOOSE k \in 1..16 : HexLower[k] = c) - 1
  ELSE IF \E k \in 1..16 : HexUpper[k] = c
    THEN (CHOOSE k \in 1..16 : HexUpper[k] = c) - 1
  ELSE 99

\* the length of the longest prefix of s made of radix-R digits
RECURSIVE prefixLen(_, _)
prefixLen(s, R) ==
  IF s # <<>> /\ digitValue(Head(s)) < R THEN 1 + prefixLen(Tail(s), R) ELSE 0

RECURSIVE digitsValueFrom(_, _, _)
digitsValueFrom(s, R, acc) ==
  IF s = <<>> THEN acc
  ELSE digitsValueFrom(Tail(s), R, acc * R + digitValue(Head(s)))

\* the number a string of radix-R digits denotes (0 for no digit)
digitsValue(s, R) == digitsValueFrom(s, R, 0)

drop(s, n) == SubSeq(s, n + 1, Len(s))

hasPrefix(s, p) == Len(s) >= Len(p) /\ SubSeq(s, 1, Len(p)) = p

INFINITY == <<"I", "n", "f", "i", "n", "i", "t", "y">>

NoPrefix == [ok |-> FALSE, len |-> 0, num |-> NaN]

\* The scan of an unsigned decimal literal, digits [. digits?] [exp] or
\* . digits [exp], from position k of s.  phase is what was read last, mant
\* the digits of the mantissa read so far as an integer, frac how many of
\* them follow the point, esgn and ex the exponent; best is the longest
\* prefix read so far that is a whole literal.
RECURSIVE scanDecimal(_, _, _, _, _, _, _, _)
scanDecimal(s, k, phase, mant, frac, esgn, ex, best) ==
  IF k > Len(s) THEN best
  ELSE IF digitValue(s[k]) < 10
    THEN IF phase \in {"start", "int"}
           THEN scanDecimal(s, k + 1, "int", mant * 10 + digitValue(s[k]), 0, 1, 0,
                  [ok |-> TRUE, len |-> k,
                   num |-> Finite(mant * 10 + digitValue(s[k]), 0)])
         ELSE IF phase \in {"dot", "frac"}
           THEN scanDecimal(s, k + 1, "frac", mant * 10 + digitValue(s[k]),
                  frac + 1, 1, 0,
                  [ok |-> TRUE, len |-> k,
                   num |-> Finite(mant * 10 + digitValue(s[k]), -(frac + 1))])
         ELSE scanDecimal(s, k + 1, "exp", mant, frac, esgn,
                  ex * 10 + digitValue(s[k]),
                  [ok |-> TRUE, len |-> k,
                   num |-> Finite(mant, esgn * (ex * 10 + digitValue(s[k])) - frac)])
  ELSE IF s[k] = "." /\ phase = "start"
    THEN scanDecimal(s, k + 1, "dot", mant, frac, esgn, ex, best)
  ELSE IF s[k] = "." /\ phase = "int"
    THEN scanDecimal(s, k + 1, "frac", mant, frac, esgn, ex,
           [ok |-> TRUE, len |-> k, num |-> Finite(mant, 0)])
  ELSE IF s[k] \in {"e", "E"} /\ phase \in {"int", "frac"}
    THEN scanDecimal(s, k + 1, "e", mant, frac, esgn, ex, best)
  ELSE IF s[k] \in {"+", "-"} /\ phase = "e"
    THEN scanDecimal(s, k + 1, "esign", mant, frac,
           IF s[k] = "-" THEN -1 ELSE 1, ex, best)
  ELSE best

signLength(s) == IF s # <<>> /\ s[1] \in {"+", "-"} THEN 1 ELSE 0

signOf(s) == IF s # <<>> /\ s[1] = "-" THEN -1 ELSE 1

\* the prefix p of the unsigned text after a sign of length n and value sgn
signedPrefix(p, n, sgn) ==
  IF p.ok
    THEN [ok |-> TRUE, len |-> p.len + n,
          num |-> [cls |-> p.num.cls, m |-> sgn * p.num.m, e |-> p.num.e]]
    ELSE NoPrefix

\* The longest prefix of s that is a StrDecimalLiteral of the language:
\* [+-] ( Infinity | digits [. digits?] [exp] | . digits [exp] ).
decimalPrefix(s) ==
  signedPrefix(IF hasPrefix(drop(s, signLength(s)), INFINITY)
                 THEN [ok |-> TRUE, len |-> 8, num |-> Infinity(1)]
                 ELSE scanDecimal(drop(s, signLength(s)), 1, "start", 0, 0, 1, 0,
                                  NoPrefix),
               signLength(s), signOf(s))

\* the radix of a 0x / 0o / 0b literal, 0 when s starts with none
prefixRadix(s) ==
  IF Len(s) >= 2 /\ s[1] = "0"
    THEN CASE s[2] \in {"x", "X"} -> 16
           [] s[2] \in {"o", "O"} -> 8
           [] s[2] \in {"b", "B"} -> 2
           [] OTHER -> 0
    ELSE 0

\* the number of the literal p when it is all of a text of length n
wholeLiteral(p, n) == IF p.ok /\ p.len = n THEN p.num ELSE NaN

\* the number of the digits d in radix R, NaN unless all are digits
radixLiteral(d, R) ==
  IF d # <<>> /\ prefixLen(d, R) = Len(d) THEN Finite(digitsValue(d, R), 0) ELSE NaN

\* StringToNumber of a text without surrounding white space
trimmedToNumber(t) ==
  IF t = <<>> THEN Zero
  ELSE IF prefixRadix(t) # 0 THEN radixLiteral(drop(t, 2), prefixRadix(t))
  ELSE wholeLiteral(decimalPrefix(t), Len(t))

\* ToNumber of a string, the conversion isNaN(value) and number == string
\* apply: the whole trimmed string is a numeric literal, or the result is NaN
ToNumber(s) == trimmedToNumber(trim(s))

\* the global parseFloat: the longest decimal-literal prefix, or NaN
parseFloat(s) == wholeLiteral(decimalPrefix(trimStart(s)),
                              decimalPrefix(trimStart(s)).len)

\* the digits of radix R at the start of z, with the sign sgn
signedDigits(z, R, sgn) ==
  IF prefixLen(z, R) = 0 THEN NaN
  ELSE Finite(sgn * digitsValue(SubSeq(z, 1, prefixLen(z, R)), R), 0)

\* parseInt of a text without leading white space or sign
unsignedParseInt(u, sgn) ==
  IF prefixRadix(u) = 16 THEN signedDigits(drop(u, 2), 16, sgn)
  ELSE signedDigits(u, 10, sgn)

\* the global parseInt with no radix argument: sign, 0x prefix, then the
\* longest run of digits of the radix, or NaN
parseInt(s) ==
  unsignedParseInt(drop(trimStart(s), signLength(trimStart(s))), signOf(trimStart(s)))

\* number == number; NaN equals nothing
numberEquals(a, b) == ~isNaN(a) /\ ~isNaN(b) /\ a = b

\* number == string (line 156): the string is converted with ToNumber
looseEquals(n, s) == numberEquals(n, ToNumber(s))

UpperCase == <<"A", "B", "C", "D", "E", "F", "G", "H", "I", "J", "K", "L", "M",
               "N", "O", "P", "Q", "R", "S", "T", "U", "V", "W", "X", "Y", "Z">>

LowerCase == <<"a", "b", "c", "d", "e", "f", "g", "h", "i", "j", "k", "l", "m",
               "n", "o", "p", "q", "r", "s", "t", "u", "v", "w", "x", "y", "z">>

\* String.prototype.toLowerCase
toLowerCase(s) ==
  [k \in 1..Len(s) |->
     IF \E j \in 1..26 : UpperCase[j] = s[k]
       THEN LowerCase[CHOOSE j \in 1..26 : UpperCase[j] = s[k]]
       ELSE s[k]]

(***************************************************************************)
(* JavaScript values.  Every value is a record of the same shape, tagged   *)
(* by kind; props maps the own property names of an object to values.      *)
(***************************************************************************)
NoProps == <<>>

NumberValue(n) ==
  [kind |-> "number", num |-> n, bool |-> FALSE, str |-> <<>>, props |-> NoProps]

BooleanValue(b) ==
  [kind |-> "boolean", num |-> Zero, bool |-> b, str |-> <<>>, props |-> NoProps]

StringValue(s) ==
  [kind |-> "string", num |-> Zero, bool |-> FALSE, str |-> s, props |-> NoProps]

ObjectValue(p) ==
  [kind |-> "object", num |-> Zero, bool |-> FALSE, str |-> <<>>, props |-> p]

NullValue ==
  [kind |-> "null", num |-> Zero, bool |-> FALSE, str |-> <<>>, props |-> NoProps]

EmptyObject == ObjectValue(NoProps)

(***************************************************************************)
(* parseValue (lines 147-165).                                             *)
(***************************************************************************)
TRUE_STR == <<"t", "r", "u", "e">>

FALSE_STR == <<"f", "a", "l", "s", "e">>

\* lines 149-152: value.slice(1, -1) when the value starts and ends with the
\* same kind of quote
unwrapQuotes(val) ==
  IF (startsWith(val, QUOTE) /\ endsWith(val, QUOTE))
       \/ (startsWith(val, "'") /\ endsWith(val, "'"))
    THEN SubSeq(val, 2, Len(val) - 1)
    ELSE val

\* line 155: !isNaN(value) && !isNaN(parseFloat(value))
isNumeric(v) == ~isNaN(ToNumber(v)) /\ ~isNaN(parseFloat(v))

\* cond ? a : b
conditional(cond, a, b) == IF cond THEN a ELSE b

\* line 156: parseInt(value) == value ? parseInt(value) : parseFloat(value)
numberOf(v) == conditional(looseEquals(parseInt(v), v), parseInt(v), parseFloat(v))

\* lines 154-164: the type given to the string left by lines 149-152
typeValue(v) ==
  IF isNumeric(v) THEN NumberValue(numberOf(v))
  ELSE IF toLowerCase(v) = TRUE_STR THEN BooleanValue(TRUE)
  ELSE IF toLowerCase(v) = FALSE_STR THEN BooleanValue(FALSE)
  ELSE StringValue(v)

parseValue(val) == typeValue(unwrapQuotes(val))

(***************************************************************************)
(* Objects.  The result object of createNestedObject is a tree of own      *)
(* properties.  Every object also inherits from Object.prototype: the      *)
(* accessor __proto__, and whatever properties an earlier assignment       *)
(* through __proto__ has put there (objectPrototype, shared by the whole   *)
(* process).  The other built-in members of Object.prototype (constructor, *)
(* toString, ...) are not among the property names of the model.           *)
(***************************************************************************)
PROTO == <<"_", "_", "p", "r", "o", "t", "o", "_", "_">>

RECURSIVE GetAt(_, _)
GetAt(o, path) ==
  IF path = <<>> THEN o ELSE GetAt(o.props[Head(path)], Tail(path))

RECURSIVE SetAt(_, _, _)
SetAt(o, path, v) ==
  IF path = <<>> THEN v
  ELSE LET key == Head(path)
           old == IF key \in DOMAIN o.props THEN o.props[key] ELSE EmptyObject
       IN  ObjectValue([x \in (DOMAIN o.props) \cup {key} |->
                          IF x = key THEN SetAt(old, Tail(path), v) ELSE o.props[x]])

\* `current` of setNestedProperty: the object at path under the result
\* object ("obj") or under Object.prototype ("proto"), or no object at all
\* (a number, boolean, string or null)
NonObject == [root |-> "none", path |-> <<>>]

ObjRoot == [root |-> "obj", path |-> <<>>]

ProtoRoot == [root |-> "proto", path |-> <<>>]

deref(obj, proto, loc) == GetAt(IF loc.root = "obj" THEN obj ELSE proto, loc.path)

\* line 131: key in current, own or inherited
hasProperty(obj, proto, loc, key) ==
  \/ key \in DOMAIN deref(obj, proto, loc).props
  \/ key = PROTO
  \/ key \in DOMAIN proto.props

locationOf(v, loc) == IF v.kind = "object" THEN loc ELSE NonObject

\* line 134: current = current[key], for a key that is in current
getProperty(obj, proto, loc, key) ==
  LET o == deref(obj, proto, loc)
  IN  IF key \in DOMAIN o.props
        THEN locationOf(o.props[key], [root |-> loc.root, path |-> Append(loc.path, key)])
      ELSE IF key = PROTO
        THEN IF loc = ProtoRoot THEN NonObject ELSE ProtoRoot
      ELSE locationOf(proto.props[key], [root |-> "proto", path |-> <<key>>])

\* lines 132 and 139: current[key] = v on an object.  The __proto__ setter
\* ignores a value that is no object, and line 132 never runs for __proto__
\* (it is in every object); any other key becomes an own property.
putProperty(obj, proto, loc, key, v) ==
  IF key = PROTO THEN [obj |-> obj, proto |-> proto]
  ELSE IF loc.root = "obj"
    THEN [obj |-> SetAt(obj, Append(loc.path, key), v), proto |-> proto]
  ELSE [obj |-> obj, proto |-> SetAt(proto, Append(loc.path, key), v)]

RECURSIVE walkPath(_, _, _, _, _, _)

\* line 134, on the heap h left by lines 131-133: current = current[key]
walkInto(h, loc, keys, k, val) ==
  walkPath(h.obj, h.proto, getProperty(h.obj, h.proto, loc, keys[k]), keys, k + 1, val)

returned(h) == [obj |-> h.obj, proto |-> h.proto, threw |-> FALSE]

\* lines 129-139, from the loop's iteration k - 1 on.  `key in current` and,
\* in the strict code of a class body, an assignment to a property of a
\* value that is no object both throw a TypeError.
walkPath(obj, proto, loc, keys, k, val) ==
  IF loc = NonObject THEN [obj |-> obj, proto |-> proto, threw |-> TRUE]
  ELSE IF k < Len(keys)
    THEN walkInto(IF hasProperty(obj, proto, loc, keys[k])
                    THEN [obj |-> obj, proto |-> proto]
                    ELSE putProperty(obj, proto, loc, keys[k], EmptyObject),
                  loc, keys, k, val)
  ELSE returned(putProperty(obj, proto, loc, keys[Len(keys)], parseValue(val)))

\* setNestedProperty (lines 124-140)
setNestedProperty(obj, proto, path, val) ==
  walkPath(obj, proto, ObjRoot, split(path, "."), 1, val)

\* line 110 without the test of the value: if (key)
pairIsSetKeyOnly(key, val) == key # <<>>

\* line 110: if (key && value)
pairIsSet(key, val) == key # <<>> /\ val # <<>>

RECURSIVE createFrom(_, _, _, _, _)

\* lines 106-113 after the call of line 111 returned or threw r
createNext(r, hdrs, vals, k) ==
  IF r.threw THEN r ELSE createFrom(hdrs, vals, k + 1, r.obj, r.proto)

\* lines 106-113, from column k on; values[i] of a shorter row is undefined
\* and its .trim() throws
createFrom(hdrs, vals, k, obj, proto) ==
  IF k > Len(hdrs) THEN [obj |-> obj, proto |-> proto, threw |-> FALSE]
  ELSE IF k > Len(vals) THEN [obj |-> obj, proto |-> proto, threw |-> TRUE]
  ELSE IF pairIsSet(trim(hdrs[k]), trim(vals[k]))
    THEN createNext(setNestedProperty(obj, proto, trim(hdrs[k]), trim(vals[k])),
                    hdrs, vals, k)
  ELSE createFrom(hdrs, vals, k + 1, obj, proto)

\* createNestedObject (lines 103-116)
createNestedObject(hdrs, vals, proto) == createFrom(hdrs, vals, 1, EmptyObject, proto)

(***************************************************************************)
(* validateMandatoryFields (lines 88-95).                                  *)
(***************************************************************************)
NAME_FIRSTNAME ==
  <<"n", "a", "m", "e", ".", "f", "i", "r", "s", "t", "N", "a", "m", "e">>

NAME_LASTNAME ==
  <<"n", "a", "m", "e", ".", "l", "a", "s", "t", "N", "a", "m", "e">>

AGE == <<"a", "g", "e">>

mandatoryFields == <<NAME_FIRSTNAME, NAME_LASTNAME, AGE>>

\* missingFields that stops at the first absent field: find in place of filter
missingFieldsFirstOnly(hdrs) ==
  LET absent(field) == ~includes(hdrs, field)
  IN  SubSeq(SelectSeq(mandatoryFields, absent), 1, 1)

\* line 90
missingFields(hdrs) ==
  LET absent(field) == ~includes(hdrs, field)
  IN  SelectSeq(mandatoryFields, absent)

(***************************************************************************)
(* Errors: the name of the error's class, the fixed text of its message    *)
(* and the text computed into it.  The text of a TypeError is the          *)
(* engine's.                                                               *)
(***************************************************************************)
NoError == [name |-> "none", message |-> "", detail |-> <<>>]

TooFewLinesError ==
  [name |-> "Error", message |-> "CSV must have at least header and one data row",
   detail |-> <<>>]

MissingFieldsError(missing) ==
  [name |-> "Error", message |-> "Missing mandatory fields: ",
   detail |-> join(missing, <<",", " ">>)]

TypeError == [name |-> "TypeError", message |-> "", detail |-> <<>>]

(***************************************************************************)
(* parseCSV (lines 9-44), one action per step of the method.               *)
(***************************************************************************)
\* keepLine without the trim: line => line
keepLineUntrimmed(ln) == ln # <<>>

\* line 12: the predicate of filter, line => line.trim()
keepLine(ln) == trim(ln) # <<>>

\* line 12
nonEmptyLines(content) == SelectSeq(split(content, "\n"), keepLine)

\* columnCountMismatch that lets a longer row through: values.length < headers.length
columnCountFewer(vals, hdrs) == Len(vals) < Len(hdrs)

\* line 30
columnCountMismatch(vals, hdrs) == Len(vals) # Len(hdrs)

\* lines 12-16
SplitLines ==
  /\ pc = "parseCSV"
  /\ lines' = nonEmptyLines(csvContent)
  /\ IF Len(lines') < 2
       THEN /\ error' = TooFewLinesError
            /\ pc' = "failed"
       ELSE /\ error' = error
            /\ pc' = "header"
  /\ UNCHANGED <<csvContent, headers, jsonData, i, warnings, objectPrototype,
                 line, values, value, result>>
  /\ UNCHANGED serviceVars

\* lines 19-24
ParseHeader ==
  /\ pc = "header"
  /\ headers' = parseCSVLine(lines[1])
  /\ IF Len(missingFields(headers')) > 0
       THEN /\ error' = MissingFieldsError(missingFields(headers'))
            /\ pc' = "failed"
            /\ UNCHANGED <<jsonData, i>>
       ELSE /\ jsonData' = <<>>
            /\ i' = 1
            /\ pc' = "loop"
            /\ error' = error
  /\ UNCHANGED <<csvContent, lines, warnings, objectPrototype,
                 line, values, value, result>>
  /\ UNCHANGED serviceVars

\* lines 27-37: one iteration of the row loop
ProcessRow ==
  /\ pc = "loop"
  /\ i < Len(lines)
  /\ LET vals == parseCSVLine(lines[i + 1])
         r == createNestedObject(headers, vals, objectPrototype)
     IN  IF columnCountMismatch(vals, headers)
           THEN /\ warnings' = Append(warnings, i + 1)
                /\ i' = i + 1
                /\ UNCHANGED <<jsonData, objectPrototype, error, pc>>
           ELSE /\ objectPrototype' = r.proto
                /\ IF r.threw
                     THEN /\ error' = TypeError
                          /\ pc' = "failed"
                          /\ UNCHANGED <<jsonData, i>>
                     ELSE /\ jsonData' = Append(jsonData, r.obj)
                          /\ i' = i + 1
                          /\ UNCHANGED <<error, pc>>
                /\ UNCHANGED warnings
  /\ UNCHANGED <<csvContent, lines, headers, line, values, value, result>>
  /\ UNCHANGED serviceVars

\* line 39
ReturnData ==
  /\ pc = "loop"
  /\ i >= Len(lines)
  /\ result' = jsonData
  /\ pc' = "done"
  /\ UNCHANGED <<csvContent, lines, headers, jsonData, i, error, warnings,
                 objectPrototype, line, values, value>>
  /\ UNCHANGED serviceVars

(***************************************************************************)
(* The texts given to parseCSV: up to MaxLines lines, each one of the      *)
(* lines below, joined by newlines.                                        *)
(***************************************************************************)
COMMA == <<",">>

UNIT == <<"a", "g", "e", ".", "u", "n", "i", "t">>

\* name.firstName,name.lastName,age
HeaderPlain == NAME_FIRSTNAME \o COMMA \o NAME_LASTNAME \o COMMA \o AGE

\* age, "name.lastName",name.firstName
HeaderQuoted ==
  AGE \o <<",", " ", QUOTE>> \o NAME_LASTNAME \o <<QUOTE, ",">> \o NAME_FIRSTNAME

\* name.firstName,age
HeaderNoLast == NAME_FIRSTNAME \o COMMA \o AGE

\* name.firstName,name.lastName,age,age.unit
HeaderPrefix == HeaderPlain \o COMMA \o UNIT

\* Rohit,Prasad,35
RowThree ==
  <<"R", "o", "h", "i", "t", ",", "P", "r", "a", "s", "a", "d", ",", "3", "5">>

\* "Prasad, R",x,28,kg
RowQuoted ==
  <<QUOTE, "P", "r", "a", "s", "a", "d", ",", " ", "R", QUOTE, ",", "x", ",",
    "2", "8", ",", "k", "g">>

\* a,b
RowTwo == <<"a", ",", "b">>

\* a blank line of a file with CRLF line ends, after a space
LineSpaces == <<" ", "\r">>

CandidateLines ==
  {HeaderPlain, HeaderQuoted, HeaderNoLast, HeaderPrefix,
   RowThree, RowQuoted, RowTwo, LineSpaces, <<>>}

ContentInputs == {join(ls, <<"\n">>) : ls \in SeqsUpTo(CandidateLines, MaxLines)}

NoValue ==
  [kind |-> "undefined", num |-> Zero, bool |-> FALSE, str |-> <<>>, props |-> NoProps]

Init ==
  /\ csvContent \in ContentInputs
  /\ pc = "parseCSV"
  /\ lines = <<>>
  /\ headers = <<>>
  /\ jsonData = <<>>
  /\ i = 0
  /\ error = NoError
  /\ warnings = <<>>
  /\ objectPrototype = EmptyObject
  /\ line = <<>>
  /\ values = <<>>
  /\ value = <<>>
  /\ result = <<>>
  /\ users = <<>>
  /\ autoIncrement = 1
  /\ requests = <<>>

Next == SplitLines \/ ParseHeader \/ ProcessRow \/ ReturnData

Spec == Init /\ [][Next]_vars

(***************************************************************************)
(* A call of parseCSVLine on a line over the scanner's alphabet.           *)
(***************************************************************************)
LineChars == {"a", ",", QUOTE, " "}

\* foo,"bar,baz",qux
LineFoo ==
  <<"f", "o", "o", ",", QUOTE, "b", "a", "r", ",", "b", "a", "z", QUOTE, ",",
    "q", "u", "x">>

\* "he said ""hi"""
LineHeSaid ==
  <<QUOTE, "h", "e", " ", "s", "a", "i", "d", " ", QUOTE, QUOTE, "h", "i",
    QUOTE, QUOTE, QUOTE>>

LineInputs == SeqsUpTo(LineChars, MaxLineLen) \cup {LineFoo, LineHeSaid}

LineInit ==
  /\ line \in LineInputs
  /\ pc = "parseCSVLine"
  /\ csvContent = <<>>
  /\ lines = <<>>
  /\ headers = <<>>
  /\ jsonData = <<>>
  /\ i = 0
  /\ error = NoError
  /\ warnings = <<>>
  /\ objectPrototype = EmptyObject
  /\ values = <<>>
  /\ value = <<>>
  /\ result = <<>>
  /\ users = <<>>
  /\ autoIncrement = 1
  /\ requests = <<>>

ParseCSVLineCall ==
  /\ pc = "parseCSVLine"
  /\ result' = parseCSVLine(line)
  /\ pc' = "done"
  /\ UNCHANGED <<csvContent, lines, headers, jsonData, i, error, warnings,
                 objectPrototype, line, values, value>>
  /\ UNCHANGED serviceVars

LineNext == ParseCSVLineCall

LineSpec == LineInit /\ [][LineNext]_vars

(***************************************************************************)
(* A call of parseValue on a string over the value alphabet.               *)
(***************************************************************************)
ValueChars == {"0", "1", "5", ".", "e", "x", "b", "-", "'", " "}

ValueExamples ==
  {<<"3", "5">>, <<"0", "3", "5">>, <<"3", "5", ".", "5">>, <<"+", "3", "5">>,
   <<"-", "0", "0", "7">>, <<"3", "5", ".", "5", "0">>, <<"3", "5", ".", "0">>,
   <<"1", "2", "p", "x">>, <<"0", "x", "1", "A">>, <<"0", "o", "1", "7">>,
   TRUE_STR, FALSE_STR, <<"T", "r", "u", "e">>, <<"F", "A", "L", "S", "E">>,
   INFINITY, <<"-">> \o INFINITY, <<"N", "a", "N">>,
   <<QUOTE>>, <<QUOTE, QUOTE>>, <<QUOTE, "5", QUOTE>>, <<QUOTE, "'", "5", "'", QUOTE>>,
   <<QUOTE, "5", "'">>, <<"1", "e", "3", "0", "9">>, <<"a", "b", "c">>}

ValueInputs == SeqsUpTo(ValueChars, MaxValueLen) \cup ValueExamples

ValueInit ==
  /\ value \in ValueInputs
  /\ pc = "parseValue"
  /\ csvContent = <<>>
  /\ lines = <<>>
  /\ headers = <<>>
  /\ jsonData = <<>>
  /\ i = 0
  /\ error = NoError
  /\ warnings = <<>>
  /\ objectPrototype = EmptyObject
  /\ line = <<>>
  /\ values = <<>>
  /\ result = NoValue
  /\ users = <<>>
  /\ autoIncrement = 1
  /\ requests = <<>>

ParseValueCall ==
  /\ pc = "parseValue"
  /\ result' = parseValue(value)
  /\ pc' = "done"
  /\ UNCHANGED <<csvContent, lines, headers, jsonData, i, error, warnings,
                 objectPrototype, line, values, value>>
  /\ UNCHANGED serviceVars

ValueNext == ParseValueCall

ValueSpec == ValueInit /\ [][ValueNext]_vars

(***************************************************************************)
(* A call of createNestedObject on a header and a row of the same length,  *)
(* as parseCSV calls it (line 35).                                         *)
(***************************************************************************)
HeaderPaths ==
  {<<"a", ".", "b">>, <<"a", ".", "c">>, <<" ", "a", " ">>, <<"c">>,
   <<"a", ".", "b", ".", "c">>, <<>>, PROTO, PROTO \o <<".", "c">>}

FieldValues == {<<"1">>, <<"2">>, <<"5">>, <<>>, <<" ">>}

NestedInputs ==
  {p \in SeqsUpTo(HeaderPaths, MaxCols) \X SeqsUpTo(FieldValues, MaxCols) :
     Len(p[1]) = Len(p[2])}

NestedInit ==
  /\ \E p \in NestedInputs : headers = p[1] /\ values = p[2]
  /\ pc = "createNestedObject"
  /\ csvContent = <<>>
  /\ lines = <<>>
  /\ jsonData = <<>>
  /\ i = 0
  /\ error = NoError
  /\ warnings = <<>>
  /\ objectPrototype = EmptyObject
  /\ line = <<>>
  /\ value = <<>>
  /\ result = NoValue
  /\ users = <<>>
  /\ autoIncrement = 1
  /\ requests = <<>>

CreateNestedObjectCall ==
  /\ pc = "createNestedObject"
  /\ LET r == createNestedObject(headers, values, objectPrototype)
     IN  /\ objectPrototype' = r.proto
         /\ IF r.threw
              THEN /\ error' = TypeError
                   /\ pc' = "failed"
                   /\ result' = result
              ELSE /\ result' = r.obj
                   /\ pc' = "done"
                   /\ error' = error
  /\ UNCHANGED <<csvContent, lines, headers, jsonData, i, warnings,
                 line, values, value>>
  /\ UNCHANGED serviceVars

NestedNext == CreateNestedObjectCall

NestedSpec == NestedInit /\ [][NestedNext]_vars

(***************************************************************************)
(* UserService.transformUserData (lines 193-219).                          *)
(***************************************************************************)
NAME == <<"n", "a", "m", "e">>

FIRSTNAME == <<"f", "i", "r", "s", "t", "N", "a", "m", "e">>

LASTNAME == <<"l", "a", "s", "t", "N", "a", "m", "e">>

ADDRESS == <<"a", "d", "d", "r", "e", "s", "s">>

\* v.key and v?.key: an own property of an object, undefined otherwise
propertyOf(v, key) ==
  IF v.kind = "object" /\ key \in DOMAIN v.props THEN v.props[key] ELSE NoValue

\* ToBoolean
truthy(v) ==
  CASE v.kind = "object" -> TRUE
    [] v.kind = "string" -> v.str # <<>>
    [] v.kind = "number" -> ~isNaN(v.num) /\ v.num # Zero
    [] v.kind = "boolean" -> v.bool
    [] OTHER -> FALSE

\* a || b
orElse(a, b) == IF truthy(a) THEN a ELSE b

Digits == <<"0", "1", "2", "3", "4", "5", "6", "7", "8", "9">>

\* the decimal digits of a natural number
RECURSIVE digitsOf(_)
digitsOf(n) ==
  IF n < 10 THEN <<Digits[n + 1]>> ELSE Append(digitsOf(n \div 10), Digits[(n % 10) + 1])

zeros(n) == [k \in 1..n |-> "0"]

\* Number::toString of a positive finite number with the digits ds and the
\* decimal exponent order: plain digits from 1e-6 up to 1e21, exponent
\* notation beyond
positiveText(ds, order) ==
  IF order >= 21 \/ order < -6
    THEN <<ds[1]>> \o (IF Len(ds) > 1 THEN <<".">> \o Tail(ds) ELSE <<>>)
           \o <<"e", IF order < 0 THEN "-" ELSE "+">> \o digitsOf(Abs(order))
  ELSE IF order < 0
    THEN <<"0", ".">> \o zeros(-order - 1) \o ds
  ELSE IF order + 1 >= Len(ds)
    THEN ds \o zeros(order + 1 - Len(ds))
  ELSE SubSeq(ds, 1, order + 1) \o <<".">> \o SubSeq(ds, order + 2, Len(ds))

\* Number::toString
numberText(n) ==
  IF isNaN(n) THEN <<"N", "a", "N">>
  ELSE IF n.cls = "inf"
    THEN (IF n.m < 0 THEN <<"-">> ELSE <<>>) \o <<"I", "n", "f", "i", "n", "i", "t", "y">>
  ELSE IF n.m = 0 THEN <<"0">>
  ELSE (IF n.m < 0 THEN <<"-">> ELSE <<>>)
         \o positiveText(digitsOf(Abs(n.m)), n.e + decimalDigitCount(Abs(n.m)) - 1)

\* ToString, as a template literal and parseInt apply it
toText(v) ==
  CASE v.kind = "string" -> v.str
    [] v.kind = "number" -> numberText(v.num)
    [] v.kind = "boolean" -> IF v.bool THEN TRUE_STR ELSE FALSE_STR
    [] v.kind = "object" ->
         <<"[", "o", "b", "j", "e", "c", "t", " ", "O", "b", "j", "e", "c", "t", "]">>
    [] v.kind = "null" -> <<"n", "u", "l", "l">>
    [] OTHER -> <<"u", "n", "d", "e", "f", "i", "n", "e", "d">>

\* lines 196-198: `${firstName} ${lastName}`.trim()
fullName(record) ==
  trim(toText(orElse(propertyOf(propertyOf(record, NAME), FIRSTNAME), StringValue(<<>>)))
         \o <<" ">>
         \o toText(orElse(propertyOf(propertyOf(record, NAME), LASTNAME), StringValue(<<>>))))

\* lines 205-210: the properties of the record other than name, age and address
additionalInfo(record) ==
  [key \in (DOMAIN record.props) \ {NAME, AGE, ADDRESS} |-> record.props[key]]

\* lines 195-217: the user made of one record
transformUser(record) ==
  [name |-> fullName(record),
   age |-> parseInt(toText(orElse(propertyOf(record, AGE), NumberValue(Zero)))),
   address |-> orElse(propertyOf(record, ADDRESS), NullValue),
   additional_info |-> IF DOMAIN additionalInfo(record) # {}
                         THEN ObjectValue(additionalInfo(record))
                         ELSE NullValue]

\* line 194: jsonData.map
transformUserData(data) == [k \in 1..Len(data) |-> transformUser(data[k])]

(***************************************************************************)
(* Database (src/config/database.js): the table users behind the one       *)
(* connection of the process.  A statement runs at once on the table; any  *)
(* statement can fail, and the text of its error is the driver's.          *)
(***************************************************************************)
QueryError == [name |-> "Error", message |-> "query failed", detail |-> <<>>]

\* lines 48-58: the row INSERT INTO users adds; id is AUTO_INCREMENT, the
\* two JSON columns hold the documents of address and additional_info
rowOf(id, user) ==
  [id |-> id, name |-> user.name, age |-> user.age,
   address |-> user.address, additional_info |-> user.additional_info]

(***************************************************************************)
(* UserService.calculateAgeDistribution (lines 255-306).                   *)
(***************************************************************************)
\* the value of an INT column
intOf(n) == n.m * Pow10(n.e)

\* lines 273-281: the age group of a row
ageGroupOf(row) ==
  IF intOf(row.age) < 20 THEN "under20"
  ELSE IF intOf(row.age) < 40 THEN "20to40"
  ELSE IF intOf(row.age) < 60 THEN "40to60"
  ELSE "over60"

AgeGroups == {"under20", "20to40", "40to60", "over60"}

\* Math.round((count / total) * 100)
percentOf(count, total) == (200 * count + total) \div (2 * total)

NoReport == [g \in AgeGroups |-> 0]

\* lines 259-294: the distribution printed for the rows read, none for an
\* empty table
distributionOf(rows) ==
  IF Len(rows) = 0 THEN NoReport
  ELSE [g \in AgeGroups |->
          percentOf(Cardinality({k \in 1..Len(rows) : ageGroupOf(rows[k]) = g}),
                    Len(rows))]

(***************************************************************************)
(* UserService.bulkInsertUsers (lines 226-250) and processCSVData (lines   *)
(* 319-352), called by the two routes of app.js.  A request runs from one  *)
(* await to the next in one step; the steps of the requests interleave.    *)
(***************************************************************************)
Routes == {"upload-csv", "process-file"}

NoResult == [total |-> 0, success |-> 0, errors |-> 0, errorDetails |-> <<>>]

NoResponse ==
  [status |-> 0, success |-> FALSE, message |-> "", data |-> NoResult, error |-> ""]

\* app.js lines 158-167 and 199-209: the body of res.json
successResponse(route, res) ==
  [status |-> 200, success |-> TRUE,
   message |-> IF route = "upload-csv" THEN "CSV processed successfully"
               ELSE "CSV file processed successfully",
   data |-> [total |-> res.total, success |-> res.success, errors |-> res.errors,
             errorDetails |-> res.errorDetails],
   error |-> ""]

\* app.js lines 168-175 and 210-217
failureResponse(err) ==
  [status |-> 500, success |-> FALSE, message |-> "Error processing CSV file",
   data |-> NoResult, error |-> err.message]

\* processCSVData is called with data (app.js lines 156 and 197)
called(data) ==
  [pc |-> "processCSVData", jsonData |-> data, userData |-> <<>>, next |-> 0,
   successCount |-> 0, errorCount |-> 0, errors |-> <<>>, calls |-> <<>>,
   result |-> NoResult, users |-> <<>>, report |-> NoReport, error |-> NoError,
   response |-> NoResponse]

\* lines 349-351 and the catch block of the route
thrown(req, err) ==
  [req EXCEPT !.pc = "failed", !.error = err, !.response = failureResponse(err)]

\* lines 243-248: the value bulkInsertUsers returns
bulkInsertResult(req) ==
  [total |-> Len(req.userData), success |-> req.successCount,
   errors |-> req.errorCount, errorDetails |-> req.errors]

\* line 232: the loop takes its next user and awaits its insert, or is over
\* and processCSVData awaits calculateAgeDistribution (lines 330-345)
continueLoop(req) ==
  IF req.next <= Len(req.userData)
    THEN [req EXCEPT !.pc = "insertUser"]
    ELSE [req EXCEPT !.pc = "getAllUsers", !.result = bulkInsertResult(req)]

\* line 234: insertUser was called with user and returned the row id, or
\* threw (id 0)
insertCalled(req, user, id) ==
  [req EXCEPT !.calls = Append(@, [user |-> user, insertId |-> id]),
              !.next = @ + 1]

\* line 235
insertSucceeded(req) == [req EXCEPT !.successCount = @ + 1]

\* the catch block without the push: errorCount++ only
insertFailedUnrecorded(req, user, err) == [req EXCEPT !.errorCount = @ + 1]

\* lines 236-242: the catch block
insertFailed(req, user, err) ==
  [req EXCEPT !.errorCount = @ + 1,
              !.errors = Append(@, [user |-> user.name, error |-> err.message])]

\* lines 321-327: up to the await of clearUsers
ProcessCSVData(r) ==
  /\ requests[r].pc = "processCSVData"
  /\ requests' = [requests EXCEPT ![r] =
                    [@ EXCEPT !.userData = transformUserData(requests[r].jsonData),
                              !.pc = "clearUsers"]]
  /\ UNCHANGED <<users, autoIncrement>>
  /\ UNCHANGED parserVars

\* database.js lines 77-85 and lines 327-330, 227-232: DELETE FROM users
\* runs, bulkInsertUsers starts
ClearUsers(r) ==
  /\ requests[r].pc = "clearUsers"
  /\ \E ok \in BOOLEAN :
       IF ok
         THEN /\ users' = <<>>
              /\ requests' = [requests EXCEPT ![r] =
                                continueLoop([@ EXCEPT !.next = 1])]
         ELSE /\ users' = users
              /\ requests' = [requests EXCEPT ![r] = thrown(@, QueryError)]
  /\ UNCHANGED autoIncrement
  /\ UNCHANGED parserVars

\* database.js lines 47-65 and lines 232-242: the INSERT of the loop's user
\* runs, the loop goes on
InsertUser(r) ==
  /\ requests[r].pc = "insertUser"
  /\ LET req == requests[r]
         user == req.userData[req.next]
     IN  \E ok \in BOOLEAN :
           IF ok
             THEN /\ users' = Append(users, rowOf(autoIncrement, user))
                  /\ autoIncrement' = autoIncrement + 1
                  /\ requests' = [requests EXCEPT ![r] =
                       continueLoop(insertSucceeded(insertCalled(req, user, autoIncrement)))]
             ELSE /\ UNCHANGED <<users, autoIncrement>>
                  /\ requests' = [requests EXCEPT ![r] =
                       continueLoop(insertFailed(insertCalled(req, user, 0), user, QueryError))]
  /\ UNCHANGED parserVars

\* database.js lines 67-75 and lines 255-306, 345-347: SELECT * FROM users
\* runs, the report is printed, processCSVData returns and the route answers
CalculateAgeDistribution(r) ==
  /\ requests[r].pc = "getAllUsers"
  /\ \E ok \in BOOLEAN :
       requests' = [requests EXCEPT ![r] =
         IF ok
           THEN [@ EXCEPT !.users = users,
                          !.report = distributionOf(users),
                          !.pc = "done",
                          !.response = successResponse(r, requests[r].result)]
           ELSE thrown(@, QueryError)]
  /\ UNCHANGED <<users, autoIncrement>>
  /\ UNCHANGED parserVars

(***************************************************************************)
(* Two requests, one to each route, each with the first rows of a parsed   *)
(* file: up to MaxBatch records.                                           *)
(***************************************************************************)
\* {name: {firstName: 'Rohit', lastName: 'Prasad'}, age: 35}
RecordRohit ==
  SetAt(SetAt(SetAt(EmptyObject,
                    <<NAME, FIRSTNAME>>, StringValue(<<"R", "o", "h", "i", "t">>)),
              <<NAME, LASTNAME>>, StringValue(<<"P", "r", "a", "s", "a", "d">>)),
        <<AGE>>, NumberValue(Finite(35, 0)))

\* {name: {firstName: 7}, age: 70, address: {city: 'x'}}
RecordSeven ==
  SetAt(SetAt(SetAt(EmptyObject,
                    <<NAME, FIRSTNAME>>, NumberValue(Finite(7, 0))),
              <<AGE>>, NumberValue(Finite(70, 0))),
        <<ADDRESS, <<"c", "i", "t", "y">>>>, StringValue(<<"x">>))

\* {name: {lastName: true}, gender: 'm'}: the age column was 0 or empty
RecordNoAge ==
  SetAt(SetAt(EmptyObject,
              <<NAME, LASTNAME>>, BooleanValue(TRUE)),
        <<<<"g", "e", "n", "d", "e", "r">>>>, StringValue(<<"m">>))

CandidateRecords == <<RecordRohit, RecordSeven, RecordNoAge>>

\* the parsed file a route is given: the candidate records in turn, from the
\* first one for upload-csv and from the second one for process-file
fileOf(r) ==
  [k \in 1..MaxBatch |->
     CandidateRecords[((k - 1 + (IF r = "upload-csv" THEN 0 ELSE 1)) % 3) + 1]]

ServiceInit ==
  /\ requests \in [Routes -> UNION {{called(SubSeq(fileOf(r), 1, n)) : n \in 0..MaxBatch}
                                       : r \in Routes}]
  /\ \A r \in Routes : requests[r].jsonData = SubSeq(fileOf(r), 1, Len(requests[r].jsonData))
  /\ users = <<>>
  /\ autoIncrement = 1
  /\ pc = "service"
  /\ csvContent = <<>>
  /\ lines = <<>>
  /\ headers = <<>>
  /\ jsonData = <<>>
  /\ i = 0
  /\ error = NoError
  /\ warnings = <<>>
  /\ objectPrototype = EmptyObject
  /\ line = <<>>
  /\ values = <<>>
  /\ value = <<>>
  /\ result = <<>>

ServiceNext ==
  \E r \in Routes :
    \/ ProcessCSVData(r)
    \/ ClearUsers(r)
    \/ InsertUser(r)
    \/ CalculateAgeDistribution(r)

ServiceSpec == ServiceInit /\ [][ServiceNext]_vars

(***************************************************************************)
(* The text given to parseCSV as its lines, by the positions of its        *)
(* newlines, for the properties below.                                     *)
(***************************************************************************)
newlinesOf(content) == {p \in 1..Len(content) : content[p] = "\n"}

\* the position of the n-th newline of the set nl
nthNewline(nl, n) == CHOOSE p \in nl : Cardinality({q \in nl : q < p}) = n - 1

\* the lines of the text, in order: line n lies between newline n - 1 and
\* newline n
sourceLines(content) ==
  LET nl == newlinesOf(content)
      count == Cardinality(nl) + 1
  IN  [n \in 1..count |->
         SubSeq(content,
                IF n = 1 THEN 1 ELSE nthNewline(nl, n - 1) + 1,
                IF n = count THEN Len(content) ELSE nthNewline(nl, n) - 1)]

isBlank(ln) == \A k \in 1..Len(ln) : ln[k] \in WhiteSpace

notBlank(ln) == ~isBlank(ln)

\* the lines that are not empty after trimming, in order
nonBlankLines(content) == SelectSeq(sourceLines(content), notBlank)

\* the two errors of parseCSV, by their messages
isFormatError(e) ==
  e.name = "Error" /\ e.message = "CSV must have at least header and one data row"

isValidationError(e) ==
  e.name = "Error" /\ e.message = "Missing mandatory fields: "

\* the paths a ValidationError names
namedPaths(e) == {trim(x) : x \in Range(split(e.detail, ","))}

mandatorySet == {NAME_FIRSTNAME, NAME_LASTNAME, AGE}

absentFields(hdr) == {f \in mandatorySet : f \notin Range(hdr)}

finished == pc \in {"done", "failed"}

\* the record of one data row under the header hdr
recordOf(hdr, row) == createNestedObject(hdr, parseCSVLine(row), EmptyObject).obj

\* the data rows among lines 2..upto of src with as many fields as the header
matchingRows(src, upto) ==
  LET matches(k) == Len(parseCSVLine(src[k])) = Len(parseCSVLine(src[1]))
      RECURSIVE pick(_)
      pick(k) == IF k > upto THEN <<>>
                 ELSE IF matches(k) THEN <<src[k]>> \o pick(k + 1)
                 ELSE pick(k + 1)
  IN  pick(2)

(***************************************************************************)
(* C4.  A text with fewer than 2 lines that are not empty after trimming   *)
(* makes parseCSV fail with the error 'CSV must have at least header and   *)
(* one data row' and return no record; a text with 2 or more such lines    *)
(* never fails with that error.                                            *)
(***************************************************************************)
C4_FormatErrorIffFewerThanTwoLines ==
  pc # "parseCSV" =>
    /\ isFormatError(error) <=> Len(nonBlankLines(csvContent)) < 2
    /\ isFormatError(error) => pc = "failed" /\ jsonData = <<>> /\ result = <<>>

\* a header line followed only by a line of white space was refused
C4_Witness ==
  /\ pc = "failed"
  /\ isFormatError(error)
  /\ csvContent = HeaderPlain \o <<"\n">> \o LineSpaces

(***************************************************************************)
(* C3.  For a text with at least 2 non-empty lines, parseCSV fails with    *)
(* the error 'Missing mandatory fields: ...' exactly when one of            *)
(* name.firstName, name.lastName, age is absent from the tokenized header; *)
(* the error names exactly the absent paths, all of them, in the order of  *)
(* the mandatory list; and no record is returned.                          *)
(***************************************************************************)
C3_ValidationErrorNamesAllMissing ==
  LET src == nonBlankLines(csvContent)
      absent == absentFields(parseCSVLine(src[1]))
  IN  (pc \in {"loop", "done", "failed"} /\ Len(src) >= 2) =>
        /\ isValidationError(error) <=> absent # {}
        /\ isValidationError(error) =>
             /\ namedPaths(error) = absent
             /\ error.detail = join(SelectSeq(mandatoryFields,
                                              LAMBDA f : f \in absent), <<",", " ">>)
             /\ pc = "failed"
             /\ jsonData = <<>>
             /\ result = <<>>

\* the header name.firstName,age was refused, naming name.lastName alone
C3_Witness ==
  /\ pc = "failed"
  /\ isValidationError(error)
  /\ parseCSVLine(lines[1]) = <<NAME_FIRSTNAME, AGE>>
  /\ namedPaths(error) = {NAME_LASTNAME}

\* all three mandatory paths are named when all are absent
C3_WitnessAllMissing ==
  /\ pc = "failed"
  /\ isValidationError(error)
  /\ namedPaths(error) = mandatorySet

\* the data rows of src whose field count differs from the header's
mismatchingRows(src) ==
  {k \in 2..Len(src) : Len(parseCSVLine(src[k])) # Len(parseCSVLine(src[1]))}

\* the records of the rows kept among lines 2..upto of src, in order
recordsOf(src, upto) ==
  LET kept == matchingRows(src, upto)
  IN  [k \in 1..Len(kept) |-> recordOf(parseCSVLine(src[1]), kept[k])]

(***************************************************************************)
(* C2.  At every point of the row loop of parseCSV the output holds, in    *)
(* order, exactly the records of the rows read so far whose field count    *)
(* equals the header's; a row with another field count adds no record,     *)
(* leaves the records so far as they are and never aborts the parse (one   *)
(* warning per such row); the returned sequence has as many records as     *)
(* there are data rows minus the rows with a mismatching field count.      *)
(***************************************************************************)
C2_OnlyMatchingRowsEmitted ==
  LET src == nonBlankLines(csvContent)
  IN  /\ pc = "loop" =>
           /\ jsonData = recordsOf(src, i)
           /\ Len(warnings) = Cardinality({k \in mismatchingRows(src) : k <= i})
      /\ pc = "done" =>
           /\ result = recordsOf(src, Len(src))
           /\ Len(result) = (Len(src) - 1) - Cardinality(mismatchingRows(src))
           /\ Len(warnings) = Cardinality(mismatchingRows(src))
      /\ (pc = "failed" /\ error = TypeError) => (i + 1) \notin mismatchingRows(src)

\* header of 3 columns, a row of 2 values, a row of 3 values: the row of 2
\* values was dropped with a warning and the row after it was kept
C2_Witness ==
  /\ pc = "done"
  /\ lines = <<HeaderPlain, RowTwo, RowThree>>
  /\ warnings = <<2>>
  /\ Len(result) = 1
  /\ result[1] = recordOf(parseCSVLine(HeaderPlain), RowThree)

(***************************************************************************)
(* C1.  For every text whose header holds all the mandatory fields and     *)
(* whose N data rows all have the header's field count, parseCSV returns   *)
(* exactly N records, the k-th one built from the k-th data row.           *)
(***************************************************************************)
C1_ReturnsEveryRowInOrder ==
  LET src == nonBlankLines(csvContent)
  IN  (/\ finished
       /\ Len(src) >= 2
       /\ absentFields(parseCSVLine(src[1])) = {}
       /\ mismatchingRows(src) = {})
        => /\ pc = "done"
           /\ Len(result) = Len(src) - 1
           /\ \A k \in 1..Len(result) :
                result[k] = recordOf(parseCSVLine(src[1]), src[k + 1])

\* the header name.firstName,name.lastName,age,age.unit with one row of four
\* fields: the call was aborted and no record returned
C1_Witness ==
  /\ pc = "failed"
  /\ csvContent = HeaderPrefix \o <<"\n">> \o RowQuoted
  /\ absentFields(headers) = {}
  /\ Len(parseCSVLine(RowQuoted)) = Len(headers)
  /\ result = <<>>

(***************************************************************************)
(* C5.  parseCSV either returns or fails with one of two errors: the one   *)
(* for fewer than 2 non-empty lines or the one for a missing mandatory     *)
(* path; nothing else aborts the call, whatever the header (age together   *)
(* with age.unit included) and the rows.                                   *)
(***************************************************************************)
C5_OnlyTwoErrorKinds ==
  LET src == nonBlankLines(csvContent)
  IN  /\ pc = "failed" =>
           \/ isFormatError(error) /\ Len(src) < 2
           \/ isValidationError(error) /\ absentFields(parseCSVLine(src[1])) # {}
      /\ pc = "done" => error = NoError

\* a TypeError aborted the call on a header with age and age.unit
C5_Witness ==
  /\ pc = "failed"
  /\ error = TypeError
  /\ AGE \in Range(headers)
  /\ UNIT \in Range(headers)

\* the n-th smallest position of the set ps
nthPosition(ps, n) == CHOOSE p \in ps : Cardinality({q \in ps : q < p}) = n - 1

\* the characters of ln at the positions ps, in order
charsAt(ln, ps) == [n \in 1..Cardinality(ps) |-> ln[nthPosition(ps, n)]]

quotesBefore(ln, k) == Cardinality({p \in 1..(k - 1) : ln[p] = QUOTE})

\* position k lies inside double quotes: an odd number of quotes precedes it
insideQuotes(ln, k) == quotesBefore(ln, k) % 2 = 1

\* the commas outside double quotes: the field separators
separators(ln) == {k \in 1..Len(ln) : ln[k] = "," /\ ~insideQuotes(ln, k)}

\* the first position of the run of consecutive quotes that holds position k
runStart(ln, k) ==
  CHOOSE r \in 1..k :
    /\ \A q \in r..k : ln[q] = QUOTE
    /\ r = 1 \/ ln[r - 1] # QUOTE

\* the quote at k is the second of a doubled quote inside quotes: of a run
\* that starts inside quotes the quotes pair up from the first, of a run
\* that starts outside the first quote opens and the rest pair up
isLiteralQuote(ln, k) ==
  LET r == runStart(ln, k)
  IN  IF insideQuotes(ln, r) THEN (k - r) % 2 = 1
      ELSE k - r >= 2 /\ (k - r) % 2 = 0

\* the positions whose character belongs to a field
fieldPositions(ln) ==
  {k \in 1..Len(ln) :
     IF ln[k] = QUOTE THEN isLiteralQuote(ln, k)
     ELSE IF ln[k] = "," THEN insideQuotes(ln, k)
     ELSE TRUE}

\* the n-th field: the field characters between separator n - 1 and
\* separator n, trimmed
fieldOf(ln, n) ==
  LET seps == separators(ln)
      from == IF n = 1 THEN 0 ELSE nthPosition(seps, n - 1)
      to == IF n = Cardinality(seps) + 1 THEN Len(ln) + 1 ELSE nthPosition(seps, n)
  IN  trim(charsAt(ln, {k \in fieldPositions(ln) : from < k /\ k < to}))

countOf(fields, c) ==
  Cardinality({p \in (1..Len(fields)) \X (1..MaxLineLen + 20) :
                 p[2] <= Len(fields[p[1]]) /\ fields[p[1]][p[2]] = c})

(***************************************************************************)
(* C8.  parseCSVLine splits a line only at the commas outside double       *)
(* quotes: there is one field more than there are such commas, a comma     *)
(* inside quotes stays in its field, a doubled quote inside quotes gives   *)
(* one quote character, the delimiting quotes are in no field, and every   *)
(* field is trimmed; foo,"bar,baz",qux gives [foo, bar,baz, qux] and       *)
(* "he said ""hi""" gives [he said "hi"].                                   *)
(***************************************************************************)
C8_SplitsAtCommasOutsideQuotes ==
  (pc = "done") =>
    /\ Len(result) = Cardinality(separators(line)) + 1
    /\ \A n \in 1..Len(result) :
         /\ result[n] = fieldOf(line, n)
         /\ result[n] = trim(result[n])
    /\ countOf(result, ",") =
         Cardinality({k \in 1..Len(line) : line[k] = "," /\ insideQuotes(line, k)})
    /\ countOf(result, QUOTE) =
         Cardinality({k \in 1..Len(line) : line[k] = QUOTE /\ isLiteralQuote(line, k)})
    /\ line = LineFoo =>
         result = << <<"f", "o", "o">>, <<"b", "a", "r", ",", "b", "a", "z">>,
                     <<"q", "u", "x">> >>
    /\ line = LineHeSaid =>
         result = << <<"h", "e", " ", "s", "a", "i", "d", " ", QUOTE, "h", "i", QUOTE>> >>

\* foo,"bar,baz",qux was split into its three fields
C8_Witness ==
  /\ pc = "done"
  /\ line = LineFoo
  /\ Len(result) = 3
  /\ result[2] = <<"b", "a", "r", ",", "b", "a", "z">>

\* "he said ""hi""" was read as one field with two literal quotes
C8_WitnessEscapedQuote ==
  /\ pc = "done"
  /\ line = LineHeSaid
  /\ result = << <<"h", "e", " ", "s", "a", "i", "d", " ", QUOTE, "h", "i", QUOTE>> >>

integer(n) == Finite(n, 0)

(***************************************************************************)
(* C9.  Whenever parseValue gives a number, it is the integer parse of the *)
(* (unwrapped) string when that equals its floating-point parse, and the   *)
(* floating-point parse otherwise: 35 and 035 give 35, a string of digits  *)
(* with a sign and leading zeros gives the integer of its decimal value,   *)
(* and 35.5 gives 35.5, not truncated.                                     *)
(***************************************************************************)
C9_IntegerIffParsesAgree ==
  (pc = "done" /\ result.kind = "number") =>
    LET v == unwrapQuotes(value)
    IN  /\ result.num = IF numberEquals(parseInt(v), parseFloat(v))
                          THEN parseInt(v)
                          ELSE parseFloat(v)
        /\ value = <<"3", "5">> => result.num = integer(35)
        /\ value = <<"0", "3", "5">> => result.num = integer(35)
        /\ value = <<"-", "0", "0", "7">> => result.num = integer(-7)
        /\ value = <<"3", "5", ".", "5">> => result.num = Finite(355, -1)

\* 0x1 gave 1, the integer parse, though the floating-point parse is 0
C9_Witness ==
  /\ pc = "done"
  /\ value = <<"0", "x", "1">>
  /\ result = NumberValue(integer(1))
  /\ parseInt(value) = integer(1)
  /\ parseFloat(value) = Zero

DecimalDigits == {"0", "1", "2", "3", "4", "5", "6", "7", "8", "9"}

allDigits(s) == \A k \in 1..Len(s) : s[k] \in DecimalDigits

withoutSign(s) == IF s # <<>> /\ s[1] \in {"+", "-"} THEN Tail(s) ELSE s

\* digits with an optional decimal point, at least one digit in all
matchesMantissa(s) ==
  \E d \in 0..Len(s) :
    LET rest == SubSeq(s, d + 1, Len(s))
    IN  /\ allDigits(SubSeq(s, 1, d))
        /\ \/ rest = <<>> /\ d > 0
           \/ /\ rest # <<>>
              /\ rest[1] = "."
              /\ allDigits(Tail(rest))
              /\ d + Len(rest) > 1

\* nothing, or e / E, an optional sign and at least one digit
matchesExponent(s) ==
  \/ s = <<>>
  \/ /\ s[1] \in {"e", "E"}
     /\ withoutSign(Tail(s)) # <<>>
     /\ allDigits(withoutSign(Tail(s)))

\* optional sign, digits, optional decimal point, optional exponent
isFloatLiteral(s) ==
  \E k \in 0..Len(s) :
    /\ matchesMantissa(SubSeq(withoutSign(s), 1, k))
    /\ matchesExponent(SubSeq(withoutSign(s), k + 1, Len(withoutSign(s))))

(***************************************************************************)
(* C10.  parseValue gives a number only when the whole unwrapped string    *)
(* is a floating-point literal (optional sign, digits, optional decimal    *)
(* point, optional exponent), and then the number is the value of the      *)
(* whole literal; a string with any other character, wherever it stands,   *)
(* is never turned into a number, and no numeric prefix of it is taken     *)
(* for its value.                                                          *)
(***************************************************************************)
C10_NumberOnlyForFloatLiterals ==
  (pc = "done" /\ result.kind = "number") =>
    /\ isFloatLiteral(unwrapQuotes(value))
    /\ result.num = ToNumber(unwrapQuotes(value))

\* 0b1 gave the number 0, the value of its prefix 0
C10_Witness ==
  /\ pc = "done"
  /\ value = <<"0", "b", "1">>
  /\ ~isFloatLiteral(value)
  /\ result = NumberValue(Zero)

\* the segments of the k-th header path
segmentsOf(hdrs, k) == split(trim(hdrs[k]), ".")

isSegmentPrefix(p, q) == Len(p) <= Len(q) /\ SubSeq(q, 1, Len(p)) = p

\* following the keys from o through own properties ends at the value v
RECURSIVE reaches(_, _, _)
reaches(o, keys, v) ==
  IF keys = <<>> THEN o = v
  ELSE /\ o.kind = "object"
       /\ Head(keys) \in DOMAIN o.props
       /\ reaches(o.props[Head(keys)], Tail(keys), v)

\* the paths of o that end at a value with no property of its own
RECURSIVE leafPaths(_)
leafPaths(o) ==
  UNION {IF o.props[key].kind = "object" /\ DOMAIN o.props[key].props # {}
           THEN {<<key>> \o p : p \in leafPaths(o.props[key])}
           ELSE {<<key>>} : key \in DOMAIN o.props}

\* every value stored in o, at any depth
RECURSIVE valuesIn(_)
valuesIn(o) ==
  {o.props[key] : key \in DOMAIN o.props}
    \cup UNION {valuesIn(o.props[key]) : key \in DOMAIN o.props}

\* the columns createNestedObject is specified to use: trimmed path and
\* trimmed value both non-empty
keptColumns(hdrs, vals) ==
  {k \in 1..Len(hdrs) : trim(hdrs[k]) # <<>> /\ trim(vals[k]) # <<>>}

only(s, ks) == [n \in 1..Cardinality(ks) |-> s[nthPosition(ks, n)]]

(***************************************************************************)
(* C6.  For a header of distinct dot-delimited paths, none a prefix of     *)
(* another, and a row of the same length with non-empty values,            *)
(* createNestedObject returns a record where following each header path    *)
(* segment by segment reaches the typed value of its field, columns with   *)
(* a common prefix share one nested mapping (a.b,a.c with 1,2 gives        *)
(* {a: {b: 1, c: 2}}), and the record has no leaf but the header paths.    *)
(***************************************************************************)
C6_NestsEveryPath ==
  (/\ finished
   /\ Len(headers) = Len(values)
   /\ \A k \in 1..Len(headers) : trim(headers[k]) # <<>> /\ trim(values[k]) # <<>>
   /\ \A j, k \in 1..Len(headers) :
        j # k => ~isSegmentPrefix(segmentsOf(headers, j), segmentsOf(headers, k)))
    => /\ pc = "done"
       /\ \A k \in 1..Len(headers) :
            reaches(result, segmentsOf(headers, k), parseValue(trim(values[k])))
       /\ leafPaths(result) = {segmentsOf(headers, k) : k \in 1..Len(headers)}
       /\ (headers = << <<"a", ".", "b">>, <<"a", ".", "c">> >>
             /\ values = << <<"1">>, <<"2">> >>)
            => result = ObjectValue([x \in {<<"a">>} |->
                          ObjectValue([y \in {<<"b">>, <<"c">>} |->
                            IF y = <<"b">> THEN NumberValue(integer(1))
                                           ELSE NumberValue(integer(2))])])

\* the header __proto__ with the value 1 gave a record with no key
C6_Witness ==
  /\ pc = "done"
  /\ headers = <<PROTO>>
  /\ values = << <<"1">> >>
  /\ result = EmptyObject

(***************************************************************************)
(* C7.  In createNestedObject a pair whose trimmed path or trimmed value   *)
(* is empty contributes nothing: the outcome is that of the other pairs    *)
(* alone, every leaf of the record is the path of a pair with non-empty    *)
(* trimmed path and value (no leaf key and no nested mapping comes from a  *)
(* skipped pair; a.b,c with ,5 gives {c: 5} with no key a), and no key     *)
(* holds an undefined or null value.                                       *)
(***************************************************************************)
C7_EmptyPairContributesNothing ==
  LET kept == keptColumns(headers, values)
      alone == createNestedObject(only(headers, kept), only(values, kept), EmptyObject)
  IN  /\ pc = "done" =>
           /\ ~alone.threw
           /\ result = alone.obj
           /\ leafPaths(result) \subseteq {segmentsOf(headers, k) : k \in kept}
           /\ \A v \in valuesIn(result) :
                v.kind \in {"number", "boolean", "string", "object"}
           /\ (headers = << <<"a", ".", "b">>, <<"c">> >> /\ values = << <<>>, <<"5">> >>)
                => result = ObjectValue([x \in {<<"c">>} |-> NumberValue(integer(5))])
      /\ pc = "failed" => alone.threw

\* header a.b,c with row ,5 gave {c: 5}
C7_Witness ==
  /\ pc = "done"
  /\ headers = << <<"a", ".", "b">>, <<"c">> >>
  /\ values = << <<>>, <<"5">> >>
  /\ DOMAIN result.props = {<<"c">>}
  /\ result.props[<<"c">>] = NumberValue(integer(5))

\* the string has at least 2 characters and begins and ends with the same
\* quote character
isWrapped(s) ==
  /\ Len(s) >= 2
  /\ s[1] \in {QUOTE, "'"}
  /\ s[Len(s)] = s[1]

(***************************************************************************)
(* C11.  parseValue removes the first and the last character of its input  *)
(* exactly when the input has at least 2 characters and begins and ends    *)
(* with the same quote character, and then removes one layer only; every   *)
(* other input, a lone quote character included, is typed with no          *)
(* character removed.                                                      *)
(***************************************************************************)
C11_UnwrapsOneLayerOnly ==
  pc = "done" =>
    result = typeValue(IF isWrapped(value)
                         THEN SubSeq(value, 2, Len(value) - 1)
                         ELSE value)

\* the lone double quote was typed as the empty string
C11_Witness ==
  /\ pc = "done"
  /\ value = <<QUOTE>>
  /\ ~isWrapped(value)
  /\ result = StringValue(<<>>)

\* the 1-based numbers, in the text, of its lines that are not blank
nonBlankNumbers(content) ==
  {n \in 1..Len(sourceLines(content)) : notBlank(sourceLines(content)[n])}

\* the line numbers in the text of the rows among the first upto non-blank
\* lines whose field count differs from the header's, in order
skippedLineNumbers(content, upto) ==
  LET skipped == {k \in mismatchingRows(nonBlankLines(content)) : k <= upto}
  IN  [n \in 1..Cardinality(skipped) |->
         nthPosition(nonBlankNumbers(content), nthPosition(skipped, n))]

(***************************************************************************)
(* C12.  For every row parseCSV skips for its column count, the number in  *)
(* the warning is the 1-based line number of that row in the text given    *)
(* to parseCSV, blank lines before the row included in the count.          *)
(***************************************************************************)
C12_WarningNamesSourceLine ==
  /\ pc = "loop" => warnings = skippedLineNumbers(csvContent, i)
  /\ pc = "done" => warnings = skippedLineNumbers(csvContent, Len(lines))

\* the row a,b on line 3, after a blank line 2, was skipped as row 2
C12_Witness ==
  /\ pc = "done"
  /\ csvContent = HeaderPlain \o <<"\n", "\n">> \o RowTwo
  /\ sourceLines(csvContent)[3] = RowTwo
  /\ warnings = <<2>>

(***************************************************************************)
(* The runs of processCSVData against the table.                           *)
(***************************************************************************)
\* the calls of insertUser a run made that inserted a row
successfulCalls(req) ==
  LET inserted(c) == c.insertId # 0
  IN  SelectSeq(req.calls, inserted)

\* the rows a run inserted, in the order of their inserts
insertedRows(req) ==
  [k \in 1..Len(successfulCalls(req)) |->
     rowOf(successfulCalls(req)[k].insertId, successfulCalls(req)[k].user)]

(* C13. A run of processCSVData clears the table users before it inserts   *)
(* any record of its batch, and when the run completes the table holds     *)
(* exactly the rows that run inserted successfully, whatever the           *)
(* interleaving with the run of a concurrent request.                      *)
C13_TableIsOwnBatchAtCompletion ==
  \A r \in Routes :
    /\ requests[r].pc \in {"processCSVData", "clearUsers"} => requests[r].calls = <<>>
    /\ requests[r].pc = "done" => requests[r].users = insertedRows(requests[r])

C13_Witness ==
  /\ requests["upload-csv"].pc = "done"
  /\ requests["upload-csv"].result.success = 1
  /\ requests["upload-csv"].users = <<>>
  /\ requests["process-file"].pc = "insertUser"
  /\ requests["process-file"].calls = <<>>

(***************************************************************************)
(* bulkInsertUsers and the inserts it attempted.                           *)
(***************************************************************************)
\* the calls of insertUser a run made that threw
failedCalls(req) ==
  LET threw(c) == c.insertId = 0
  IN  SelectSeq(req.calls, threw)

\* bulkInsertUsers has returned: its loop is past the last user
bulkInsertReturned(req) == req.next > Len(req.userData)

\* one entry per failed call, in the order of the calls
detailsOf(failed) ==
  [k \in 1..Len(failed) |-> [user |-> failed[k].user.name, error |-> QueryError.message]]

(* C14. Whatever inserts succeed or fail, bulkInsertUsers attempts the     *)
(* insert of every record of its batch in input order: a failed insert     *)
(* neither stops the loop, nor skips a record, nor fails the call.  Its    *)
(* result has total = number of records = success + errors, and            *)
(* errorDetails has exactly one entry per failed record, in input order;   *)
(* the route answers with these numbers.                                   *)
C14_BulkInsertAccountsForEveryRecord ==
  \A r \in Routes :
    LET req == requests[r]
    IN  /\ Len(req.calls) <= Len(req.userData)
        /\ \A k \in 1..Len(req.calls) : req.calls[k].user = req.userData[k]
        /\ req.pc = "insertUser" => Len(req.calls) = req.next - 1
        /\ (req.pc = "failed" /\ req.next >= 1) => bulkInsertReturned(req)
        /\ req.pc \in {"getAllUsers", "done"} => bulkInsertReturned(req)
        /\ bulkInsertReturned(req) =>
              /\ Len(req.calls) = Len(req.userData)
              /\ req.result.total = Len(req.userData)
              /\ req.result.total = req.result.success + req.result.errors
              /\ req.result.success = Len(successfulCalls(req))
              /\ req.result.errors = Len(failedCalls(req))
              /\ req.result.errorDetails = detailsOf(failedCalls(req))
        /\ req.pc = "done" => req.response.data = req.result

C14_Witness ==
  LET req == requests["upload-csv"]
  IN  /\ req.pc = "done"
      /\ Len(req.userData) = 2
      /\ req.calls[1].insertId = 0
      /\ req.calls[2].insertId # 0
      /\ req.result = [total |-> 2, success |-> 1, errors |-> 1,
                       errorDetails |-> <<[user |-> req.userData[1].name,
                                           error |-> QueryError.message]>>]
====
